---- MODULE Spec2Model ----
(***************************************************************************)
(* Model of credi_extractor.py: the school-name normalizer, the tabular    *)
(* extractor, the storage sink and the batch worker thread of the GUI.     *)
(*                                                                         *)
(* A Python str is a sequence of one-character strings.  The Python value  *)
(* None, where a name may be absent, is the one-element sequence NoneName. *)
(***************************************************************************)
EXTENDS Integers, Sequences, FiniteSets, TLC

\* ------------------------------------------------------------------ bounds

\* Threads the GUI may start in one behaviour.
MaxWorkers == 2
\* Files found in the folder by one stand-alone run.
MaxFiles == 5
\* Files found in the folder by a run started from the GUI.
MaxGuiFiles == 1
\* Records one file yields.
MaxRecs == 2
\* Words of a name handed to repeated normalization.
MaxNameWords == 4
\* Body rows of a sheet after its header row.
MaxBodyRows == 2
\* The most numbers after a keyword in the text of a page.
MaxRun == 5

\* ------------------------------------------------------- characters, str

\* The characters used, in code point order.
Alphabet ==
  << "\t", "\n", " ", "+", "-", "0", "1", "2", "3", "4", "5", "6", "7", "8", "9", ":",
     "A", "B", "C", "D", "E", "F", "G", "H", "I", "J", "K", "L", "M",
     "N", "O", "P", "Q", "R", "S", "T", "U", "V", "W", "X", "Y", "Z", "_",
     "a", "b", "c", "d", "e", "f", "g", "h", "i", "j", "k", "l", "m",
     "n", "o", "p", "q", "r", "s", "t", "u", "v", "w", "x", "y", "z",
     "U+00C8", "U+00C9", "U+00E8", "U+00E9", "U+0300", "U+0301" >>

ord(c) == CHOOSE k \in 1..Len(Alphabet) : Alphabet[k] = c

UpperLetters ==
  << "A", "B", "C", "D", "E", "F", "G", "H", "I", "J", "K", "L", "M",
     "N", "O", "P", "Q", "R", "S", "T", "U", "V", "W", "X", "Y", "Z",
     "U+00C8", "U+00C9" >>

LowerLetters ==
  << "a", "b", "c", "d", "e", "f", "g", "h", "i", "j", "k", "l", "m",
     "n", "o", "p", "q", "r", "s", "t", "u", "v", "w", "x", "y", "z",
     "U+00E8", "U+00E9" >>

Digits == {"0", "1", "2", "3", "4", "5", "6", "7", "8", "9"}

Range(f) == {f[k] : k \in DOMAIN f}

\* str.isspace() of one character, also the class \s of re.
isspace(c) == c \in {" ", "\t", "\n"}

\* The class \w of re on str patterns: alphanumerics and the underscore.
isword(c) == c \in Range(UpperLetters) \cup Range(LowerLetters) \cup Digits \cup {"_"}

\* str.upper() of one character.
upper_char(c) ==
  IF c \in Range(LowerLetters)
    THEN UpperLetters[CHOOSE k \in 1..Len(LowerLetters) : LowerLetters[k] = c]
    ELSE c

\* str.lower() of one character.
lower_char(c) ==
  IF c \in Range(UpperLetters)
    THEN LowerLetters[CHOOSE k \in 1..Len(UpperLetters) : UpperLetters[k] = c]
    ELSE c

\* unicodedata.normalize('NFD', c) of one character: the grave and acute
\* letters decompose into the base letter and the combining mark.
nfd_char(c) ==
  CASE c = "U+00C8" -> << "E", "U+0300" >>
    [] c = "U+00C9" -> << "E", "U+0301" >>
    [] c = "U+00E8" -> << "e", "U+0300" >>
    [] c = "U+00E9" -> << "e", "U+0301" >>
    [] OTHER -> << c >>

\* unicodedata.category(c) = 'Mn'.
is_Mn(c) == c \in {"U+0300", "U+0301"}

RECURSIVE upper(_)
upper(s) == IF s = << >> THEN << >> ELSE << upper_char(Head(s)) >> \o upper(Tail(s))

RECURSIVE lower(_)
lower(s) == IF s = << >> THEN << >> ELSE << lower_char(Head(s)) >> \o lower(Tail(s))

RECURSIVE nfd(_)
nfd(s) == IF s = << >> THEN << >> ELSE nfd_char(Head(s)) \o nfd(Tail(s))

RECURSIVE lstrip(_)
lstrip(s) == IF s # << >> /\ isspace(Head(s)) THEN lstrip(Tail(s)) ELSE s

RECURSIVE rstrip(_)
rstrip(s) ==
  IF s # << >> /\ isspace(s[Len(s)]) THEN rstrip(SubSeq(s, 1, Len(s) - 1)) ELSE s

strip(s) == rstrip(lstrip(s))

\* Length of the longest prefix of s whose characters are all (not) spaces.
RECURSIVE span(_, _)
span(s, spaces) ==
  IF s # << >> /\ (isspace(Head(s)) <=> spaces) THEN 1 + span(Tail(s), spaces) ELSE 0

\* str.split() without arguments: the runs of non-space characters.
RECURSIVE split(_)
split(s) ==
  LET t == lstrip(s)
      k == span(t, FALSE)
  IN  IF t = << >> THEN << >>
      ELSE << SubSeq(t, 1, k) >> \o split(SubSeq(t, k + 1, Len(t)))

\* sep.join(words).
RECURSIVE join(_, _)
join(sep, words) ==
  IF words = << >> THEN << >>
  ELSE IF Len(words) = 1 THEN words[1]
  ELSE words[1] \o sep \o join(sep, Tail(words))

\* s < t for two str: by code points, a proper prefix first.
RECURSIVE str_lt(_, _)
str_lt(s, t) ==
  IF t = << >> THEN FALSE
  ELSE IF s = << >> THEN TRUE
  ELSE IF Head(s) = Head(t) THEN str_lt(Tail(s), Tail(t))
  ELSE ord(Head(s)) < ord(Head(t))

\* sorted(S) of a set of str.
RECURSIVE sorted(_)
sorted(S) ==
  IF S = {} THEN << >>
  ELSE LET m == CHOOSE x \in S : \A y \in S \ {x} : str_lt(x, y)
       IN  << m >> \o sorted(S \ {m})

\* ---------------------------------------------------------------- words

NoneName == << "None" >>
COLON == << ":" >>
SP == << " " >>
PLUS == << "+" >>
STE == << "S", "T", "E" >>
ST == << "S", "T" >>
MAT == << "M", "A", "T" >>
ELEM == << "E", "L", "E", "M" >>
ELE == << "E", "L", "E" >>
ET == << "E", "T" >>
ECOLE == << "E", "C", "O", "L", "E" >>
SAINTE == << "S", "A", "I", "N", "T", "E" >>
SAINT == << "S", "A", "I", "N", "T" >>
MATERNELLE == << "M", "A", "T", "E", "R", "N", "E", "L", "L", "E" >>
ELEMENTAIRE == << "E", "L", "E", "M", "E", "N", "T", "A", "I", "R", "E" >>
CANTINE == << "C", "A", "N", "T", "I", "N", "E" >>
SCOLAIRE == << "S", "C", "O", "L", "A", "I", "R", "E" >>
RESTAURATION == << "R", "E", "S", "T", "A", "U", "R", "A", "T", "I", "O", "N" >>
ANNE == << "A", "N", "N", "E" >>
ECOLE_INCONNUE ==
  << "E", "C", "O", "L", "E", "_", "I", "N", "C", "O", "N", "N", "U", "E" >>

\* ------------------------------------------------------------ re.sub

\* A rule of the chain: a literal pattern, with \b before and after it when
\* lb and rb, or the pattern \s+ (kind "spaces"); rep is the replacement.
Lit(lb, pat, rb, rep) == [kind |-> "lit", lb |-> lb, pat |-> pat, rb |-> rb, rep |-> rep]
Spaces(rep) == [kind |-> "spaces", lb |-> FALSE, pat |-> << >>, rb |-> FALSE, rep |-> rep]

\* \b at the position before s[p] (p in 1..Len(s)+1).
word_boundary(s, p) ==
  LET before == p > 1 /\ isword(s[p - 1])
      after == p <= Len(s) /\ isword(s[p])
  IN  before # after

\* Length of the match of the rule's pattern at position p of s, 0 for none.
match_len(rule, s, p) ==
  IF rule.kind = "spaces"
    THEN span(SubSeq(s, p, Len(s)), TRUE)
    ELSE LET n == Len(rule.pat)
         IN  IF /\ n > 0
                /\ p + n - 1 <= Len(s)
                /\ SubSeq(s, p, p + n - 1) = rule.pat
                /\ (rule.lb => word_boundary(s, p))
                /\ (rule.rb => word_boundary(s, p + n))
               THEN n
               ELSE 0

\* re.sub(pattern, replacement, s) from position p on: the leftmost
\* non-overlapping matches are replaced.
RECURSIVE sub_from(_, _, _)
sub_from(rule, s, p) ==
  IF p > Len(s) THEN << >>
  ELSE LET n == match_len(rule, s, p)
       IN  IF n > 0 THEN rule.rep \o sub_from(rule, s, p + n)
           ELSE << s[p] >> \o sub_from(rule, s, p + 1)

re_sub(rule, s) == sub_from(rule, s, 1)

\* ------------------------------------------------- SchoolNameNormalizer

\* self.replacements after __init__.
default_replacements ==
  << Lit(TRUE, STE, TRUE, SAINTE),
     Lit(TRUE, ST, TRUE, SAINT),
     Lit(FALSE, MATERNELLE \o ELEMENTAIRE, FALSE, MATERNELLE \o SP \o ELEMENTAIRE),
     Lit(FALSE, ELEMENTAIRE \o MATERNELLE, FALSE, ELEMENTAIRE \o SP \o MATERNELLE),
     Lit(TRUE, MAT, TRUE, MATERNELLE),
     Lit(TRUE, ELEM, TRUE, ELEMENTAIRE),
     Lit(TRUE, ELE, TRUE, ELEMENTAIRE),
     Lit(TRUE, ECOLE, TRUE, << >>),
     Lit(TRUE, CANTINE \o SP \o SCOLAIRE, TRUE, << >>),
     Lit(TRUE, RESTAURATION, TRUE, << >>),
     Lit(FALSE, PLUS, FALSE, SP),
     Lit(TRUE, ET, TRUE, << >>),
     Spaces(SP) >>

\* `not school_name`.
falsy(name) == name = << >> \/ name = NoneName

\* _remove_accents(text).
remove_accents(text) == SelectSeq(nfd(text), LAMBDA c : ~is_Mn(c))

\* The key looked up in self.mappings: strip, upper, accents removed.
mapping_key(school_name) == remove_accents(upper(strip(school_name)))

\* The loop over self.replacements.
RECURSIVE apply_replacements(_, _)
apply_replacements(repl, s) ==
  IF repl = << >> THEN s
  ELSE apply_replacements(Tail(repl), re_sub(Head(repl), s))

\* The end of normalize: spaces collapsed, the empty result replaced.
clean(s) ==
  LET n == strip(join(SP, split(s)))
  IN  IF n = << >> THEN ECOLE_INCONNUE ELSE n

C7_normalize_chain_first(school_name, maps, repl) ==
  IF falsy(school_name) THEN ECOLE_INCONNUE
  ELSE clean(apply_replacements(repl, mapping_key(school_name)))

\* What normalize(school_name) returns under the mapping table and the
\* rule chain given.
normalize_result(school_name, maps, repl) ==
  IF falsy(school_name) THEN ECOLE_INCONNUE
  ELSE LET normalized == mapping_key(school_name)
       IN  IF normalized \in DOMAIN maps
             THEN maps[normalized]
             ELSE clean(apply_replacements(repl, normalized))

C8_record_always(stats, original, normalized) ==
  IF normalized \notin DOMAIN stats
    THEN [c \in DOMAIN stats \cup {normalized} |->
            IF c = normalized THEN << original >> ELSE stats[c]]
    ELSE IF original \in Range(stats[normalized]) THEN stats
    ELSE [stats EXCEPT ![normalized] = Append(@, original)]

\* _record_normalization(original, normalized) on self.normalization_stats.
record_normalization(stats, original, normalized) ==
  IF original # normalized
    THEN IF normalized \notin DOMAIN stats
           THEN [c \in DOMAIN stats \cup {normalized} |->
                   IF c = normalized THEN << original >> ELSE stats[c]]
           ELSE IF original \in Range(stats[normalized]) THEN stats
           ELSE [stats EXCEPT ![normalized] = Append(@, original)]
    ELSE stats

C6_found_add_any(found, school_name) == found \cup {school_name}

C9_found_add_key(found, school_name) ==
  IF falsy(school_name) THEN found ELSE found \cup {mapping_key(school_name)}

\* self.found_schools after normalize(school_name).
found_after(found, school_name) ==
  IF falsy(school_name) THEN found ELSE found \cup {school_name}

\* self.normalization_stats after normalize(school_name).
stats_after(stats, school_name, maps, repl) ==
  IF falsy(school_name) THEN stats
  ELSE record_normalization(stats, school_name, normalize_result(school_name, maps, repl))

C16_report_every_name(stats) ==
  LET names == sorted(DOMAIN stats)
  IN  [none |-> DOMAIN stats = {},
       consolidated |-> Cardinality(DOMAIN stats),
       listed |-> [k \in DOMAIN names |->
                     [canonical |-> names[k], variations |-> stats[names[k]]]]]

\* What get_normalization_report() says: that there is nothing, or the
\* number of canonical names and, in sorted order, those of more than one
\* variation, each with its variations.
normalization_report(stats) ==
  LET names == SelectSeq(sorted(DOMAIN stats), LAMBDA c : Len(stats[c]) > 1)
  IN  [none |-> DOMAIN stats = {},
       consolidated |-> Cardinality(DOMAIN stats),
       listed |-> [k \in DOMAIN names |->
                     [canonical |-> names[k], variations |-> stats[names[k]]]]]

\* The JSON document export_found_schools writes.
export_document(found) ==
  [total_schools |-> Cardinality(found),
   schools |-> sorted(found)]


\* A JSON mapping file as load_mapping_file reads it: whether json.load
\* succeeds, and the 'replacements' and 'mappings' fields when present.
\* A replacements entry is [has_pattern, has_replace, rule].
Entry(rule) == [has_pattern |-> TRUE, has_replace |-> TRUE, rule |-> rule]

EmptyMap == [k \in {} |-> << >>]

\* The replacements of the model file download_template writes.
template_replacements ==
  << Entry(Lit(TRUE, STE, TRUE, SAINTE)),
     Entry(Lit(TRUE, ST, TRUE, SAINT)),
     Entry(Lit(TRUE, MAT, TRUE, MATERNELLE)),
     Entry(Lit(TRUE, ELEM, TRUE, ELEMENTAIRE)) >>

ste_anne == << "s", "t", "e", " ", "a", "n", "n", "e" >>
Ste__Anne == << "S", "t", "e", " ", " ", "A", "n", "n", "e" >>

\* A mapping table: one value has lower case letters and two spaces, the
\* other is the empty string.
some_mappings ==
  [k \in {STE \o SP \o ANNE, ECOLE} |->
     IF k = ECOLE THEN << >> ELSE Ste__Anne]

\* The files loaded: mappings only; the template's replacements only; a
\* replacements entry without 'replace', with mappings; a replacements
\* entry without 'pattern'; a file that is not JSON or cannot be read.
ConfigFiles ==
  { [json_ok |-> TRUE, has_replacements |-> FALSE, replacements |-> << >>,
     has_mappings |-> TRUE, mappings |-> some_mappings],
    [json_ok |-> TRUE, has_replacements |-> TRUE, replacements |-> template_replacements,
     has_mappings |-> FALSE, mappings |-> EmptyMap],
    [json_ok |-> TRUE, has_replacements |-> TRUE,
     replacements |-> << Entry(Lit(TRUE, STE, TRUE, SAINTE)),
                         [has_pattern |-> TRUE, has_replace |-> FALSE,
                          rule |-> Lit(TRUE, ST, TRUE, SAINT)] >>,
     has_mappings |-> TRUE, mappings |-> some_mappings],
    [json_ok |-> TRUE, has_replacements |-> TRUE,
     replacements |-> << [has_pattern |-> FALSE, has_replace |-> TRUE,
                          rule |-> Lit(TRUE, MAT, TRUE, MATERNELLE)] >>,
     has_mappings |-> FALSE, mappings |-> EmptyMap],
    [json_ok |-> FALSE, has_replacements |-> FALSE, replacements |-> << >>,
     has_mappings |-> FALSE, mappings |-> EmptyMap] }

\* Whether load_mapping_file(file) reaches `return True`.
load_ok(file) ==
  /\ file.json_ok
  /\ file.has_replacements =>
       \A k \in DOMAIN file.replacements :
          file.replacements[k].has_pattern /\ file.replacements[k].has_replace

\* self.replacements after load_mapping_file(file).
replacements_after(repl, file) ==
  IF load_ok(file) /\ file.has_replacements
    THEN [k \in DOMAIN file.replacements |-> file.replacements[k].rule]
    ELSE repl

C11_mappings_before_replacements(maps, file) ==
  IF file.json_ok /\ file.has_mappings THEN file.mappings ELSE maps

\* self.mappings after load_mapping_file(file).
mappings_after(maps, file) ==
  IF load_ok(file) /\ file.has_mappings THEN file.mappings ELSE maps

\* ------------------------------------------------- MealOrderExtractor

\* str.title(): a cased character after a cased one is lowered, any other
\* cased character is raised.
RECURSIVE title_from(_, _)
title_from(s, previous_is_cased) ==
  IF s = << >> THEN << >>
  ELSE LET c == Head(s)
           cased == c \in Range(UpperLetters) \cup Range(LowerLetters)
       IN  << IF previous_is_cased THEN lower_char(c) ELSE upper_char(c) >>
             \o title_from(Tail(s), cased)

title(s) == title_from(s, FALSE)

\* needle in s.
RECURSIVE contains(_, _)
contains(s, needle) ==
  IF Len(s) < Len(needle) THEN FALSE
  ELSE SubSeq(s, 1, Len(needle)) = needle \/ contains(Tail(s), needle)

\* str(n) of an integer n >= 0.
RECURSIVE str_nat(_)
str_nat(n) ==
  LET d == << "0", "1", "2", "3", "4", "5", "6", "7", "8", "9" >>[(n % 10) + 1]
  IN  IF n < 10 THEN << d >> ELSE str_nat(n \div 10) \o << d >>

LUNDI == << "L", "U", "N", "D", "I" >>
MARDI == << "M", "A", "R", "D", "I" >>
MERCREDI == << "M", "E", "R", "C", "R", "E", "D", "I" >>
JEUDI == << "J", "E", "U", "D", "I" >>
VENDREDI == << "V", "E", "N", "D", "R", "E", "D", "I" >>
ENFANTS == << "E", "N", "F", "A", "N", "T", "S" >>
ADULTES == << "A", "D", "U", "L", "T", "E", "S" >>
RESTAURANT == << "R", "E", "S", "T", "A", "U", "R", "A", "N", "T" >>
AGENT == << "A", "G", "E", "N", "T" >>
PERIODE == << "P", "E", "R", "I", "O", "D", "E" >>
SEMAINE == << "S", "E", "M", "A", "I", "N", "E" >>
Standard == << "S", "t", "a", "n", "d", "a", "r", "d" >>
Sans_porc == << "S", "a", "n", "s", " ", "p", "o", "r", "c" >>
Vegetarien == << "V", "U+00E9", "g", "U+00E9", "t", "a", "r", "i", "e", "n" >>
Halal == << "H", "a", "l", "a", "l" >>
Total == << "T", "o", "t", "a", "l" >>

\* The weekday names the header is searched for (line 351).
jours == { LUNDI, MARDI, MERCREDI, JEUDI, VENDREDI }

\* The first cells that set the type (line 370).
types_repas == { ENFANTS, ADULTES, MATERNELLE }

\* categories (line 363).
categories == { Standard, Sans_porc, Vegetarien, Halal }

\* A cell of a sheet as openpyxl returns it: None, a str s, an int n, or a
\* float of n halves (the float n / 2).
NoneCell == [t |-> "None", s |-> << >>, n |-> 0]
StrCell(s) == [t |-> "str", s |-> s, n |-> 0]
IntCell(n) == [t |-> "int", s |-> << >>, n |-> n]
FloatCell(halves) == [t |-> "float", s |-> << >>, n |-> halves]

\* bool(cell).
truthy(cell) ==
  CASE cell.t = "None" -> FALSE
    [] cell.t = "str" -> cell.s # << >>
    [] OTHER -> cell.n # 0

\* str(cell) of a truthy cell.
str_of(cell) ==
  CASE cell.t = "str" -> cell.s
    [] cell.t = "int" ->
         IF cell.n < 0 THEN << "-" >> \o str_nat(-cell.n) ELSE str_nat(cell.n)
    [] OTHER ->
         LET a == IF cell.n < 0 THEN -cell.n ELSE cell.n
         IN  (IF cell.n < 0 THEN << "-" >> ELSE << >>)
               \o str_nat(a \div 2) \o << "." >> \o (IF a % 2 = 1 THEN << "5" >> ELSE << "0" >>)

\* int(quantite) for a number: a float is truncated toward zero.
int_of(cell) ==
  IF cell.t = "float"
    THEN IF cell.n >= 0 THEN cell.n \div 2 ELSE -((-cell.n) \div 2)
    ELSE cell.n

\* isinstance(quantite, (int, float)) and quantite > 0 (line 382).
is_positive_number(cell) == cell.t \in {"int", "float"} /\ cell.n > 0

\* jours_colonnes[col_idx] = cell_upper on a dict kept as the sequence of
\* its items in insertion order.
dict_set(items, key, value) ==
  IF \E k \in DOMAIN items : items[k][1] = key
    THEN [k \in DOMAIN items |-> IF items[k][1] = key THEN << key, value >> ELSE items[k]]
    ELSE Append(items, << key, value >>)

\* Lines 348-354 over the cells of one row from column col_idx on; the
\* state is [header_row, jours_colonnes].
RECURSIVE scan_cells(_, _, _, _)
scan_cells(row, row_idx, col_idx, st) ==
  IF col_idx >= Len(row) THEN st
  ELSE LET cell == row[col_idx + 1]
           cell_upper == strip(upper(cell.s))
           hit == truthy(cell) /\ cell.t = "str" /\ cell_upper \in jours
       IN  scan_cells(row, row_idx, col_idx + 1,
             IF hit
               THEN [header_row |-> IF st.header_row = 0 THEN row_idx ELSE st.header_row,
                     jours_colonnes |-> dict_set(st.jours_colonnes, col_idx, cell_upper)]
               ELSE st)

\* Lines 347-357: the search of the header, row by row, until the row
\* after the header row has been scanned.
RECURSIVE scan_rows(_, _, _)
scan_rows(sheet, row_idx, st) ==
  IF row_idx > Len(sheet) THEN st
  ELSE LET after == scan_cells(sheet[row_idx], row_idx, 0, st)
       IN  IF after.header_row # 0 /\ row_idx > after.header_row
             THEN after
             ELSE scan_rows(sheet, row_idx + 1, after)

find_header(sheet) == scan_rows(sheet, 1, [header_row |-> 0, jours_colonnes |-> << >>])

\* Lines 379-390: the records of one category row, one per weekday column
\* in the order of the dict.
RECURSIVE row_records(_, _, _, _)
row_records(row, items, current_type, categorie) ==
  IF items = << >> THEN << >>
  ELSE LET col_idx == items[1][1]
           jour == items[1][2]
           rest == row_records(row, Tail(items), current_type, categorie)
       IN  IF col_idx + 1 \in DOMAIN row /\ is_positive_number(row[col_idx + 1])
             THEN << [type_repas |-> current_type,
                      categorie |-> categorie,
                      jour_semaine |-> title(jour),
                      quantite |-> int_of(row[col_idx + 1])] >> \o rest
             ELSE rest

\* first_cell = str(row[0] or '').strip() (line 367).
first_cell_of(row) ==
  IF row # << >> /\ truthy(row[1]) THEN strip(str_of(row[1])) ELSE << >>

RECURSIVE C18_type_row_ignored(_, _, _, _)
C18_type_row_ignored(sheet, row_idx, items, current_type) ==
  IF row_idx > Len(sheet) THEN << >>
  ELSE LET row == sheet[row_idx]
           first_cell == first_cell_of(row)
       IN  IF first_cell \in categories
             THEN row_records(row, items, current_type, first_cell)
                    \o C18_type_row_ignored(sheet, row_idx + 1, items, current_type)
           ELSE C18_type_row_ignored(sheet, row_idx + 1, items, current_type)

\* Lines 366-390 from row row_idx on.
RECURSIVE body_rows(_, _, _, _)
body_rows(sheet, row_idx, items, current_type) ==
  IF row_idx > Len(sheet) THEN << >>
  ELSE LET row == sheet[row_idx]
           first_cell == first_cell_of(row)
       IN  IF upper(first_cell) \in types_repas
             THEN body_rows(sheet, row_idx + 1, items, title(first_cell))
           ELSE IF first_cell \in categories
             THEN row_records(row, items, current_type, first_cell)
                    \o body_rows(sheet, row_idx + 1, items, current_type)
           ELSE body_rows(sheet, row_idx + 1, items, current_type)

\* _extract_table_data(sheet).
extract_table_data(sheet) ==
  LET h == find_header(sheet)
  IN  IF h.jours_colonnes = << >> THEN << >>
      ELSE body_rows(sheet, h.header_row + 1, h.jours_colonnes, NoneName)

\* group(1).strip() of re.search(r':\s*(.+)', text) for a text without
\* line breaks, NoneName when there is no match: the first colon that a
\* character follows; the spaces after it are skipped as long as a
\* character is left for the group.
RECURSIVE after_colon(_)
after_colon(text) ==
  IF Len(text) < 2 THEN NoneName
  ELSE IF Head(text) = ":"
    THEN LET rest == Tail(text)
             k == span(rest, TRUE)
         IN  IF k < Len(rest) THEN strip(SubSeq(rest, k + 1, Len(rest)))
             ELSE strip(<< rest[Len(rest)] >>)
  ELSE after_colon(Tail(text))

\* Lines 235-251 over the cells of the first rows, in reading order; the
\* state is [school_name, agent_name, period].
RECURSIVE scan_metadata(_, _)
scan_metadata(cells, st) ==
  IF cells = << >> THEN st
  ELSE LET cell == Head(cells)
           text == cell.s
           up == upper(text)
           found == after_colon(text)
           isstr == truthy(cell) /\ cell.t = "str"
           s1 == IF isstr /\ (contains(up, RESTAURANT) \/ contains(up, ECOLE))
                      /\ found # NoneName
                   THEN [st EXCEPT !.school_name = found] ELSE st
           s2 == IF isstr /\ contains(up, AGENT) /\ found # NoneName
                   THEN [s1 EXCEPT !.agent_name = found] ELSE s1
           s3 == IF isstr /\ (contains(up, PERIODE) \/ contains(up, SEMAINE))
                   THEN [s2 EXCEPT !.period = text] ELSE s2
       IN  scan_metadata(Tail(cells), s3)

\* The cells of the rows of a sheet, row after row.
RECURSIVE cells_of(_)
cells_of(rows) == IF rows = << >> THEN << >> ELSE Head(rows) \o cells_of(Tail(rows))

\* The first 20 rows are scanned (line 234).
MetadataRows == 20

\* Lines 230-255: the school, the agent and the period of a sheet; the
\* stem of the file name stands for a school that was not found.
metadata(sheet, stem) ==
  LET st == scan_metadata(
               cells_of(SubSeq(sheet, 1, IF Len(sheet) < MetadataRows THEN Len(sheet) ELSE MetadataRows)),
               [school_name |-> NoneName, agent_name |-> NoneName, period |-> NoneName])
  IN  IF falsy(st.school_name) THEN [st EXCEPT !.school_name = stem] ELSE st

\* Lines 262-270: row_data.update(...) on every record of the sheet.
RECURSIVE with_metadata(_, _, _, _)
with_metadata(rows, meta, normalized_school, basename) ==
  IF rows = << >> THEN << >>
  ELSE << [type_repas |-> Head(rows).type_repas,
           categorie |-> Head(rows).categorie,
           jour_semaine |-> Head(rows).jour_semaine,
           quantite |-> Head(rows).quantite,
           ecole |-> meta.school_name,
           ecole_normalized |-> normalized_school,
           agent |-> meta.agent_name,
           periode |-> meta.period,
           source_fichier |-> basename] >>
         \o with_metadata(Tail(rows), meta, normalized_school, basename)

\* extract_from_excel(file_path) for a workbook of one sheet.
excel_records(sheet, stem, maps, repl) ==
  LET meta == metadata(sheet, stem)
  IN  with_metadata(extract_table_data(sheet), meta,
                    normalize_result(meta.school_name, maps, repl),
                    stem \o << ".", "x", "l", "s", "x" >>)

\* text.split('\n').
RECURSIVE split_lines(_)
split_lines(text) ==
  IF \A k \in DOMAIN text : text[k] # "\n" THEN << text >>
  ELSE LET k == CHOOSE j \in DOMAIN text :
                  text[j] = "\n" /\ \A i \in 1..(j - 1) : text[i] # "\n"
       IN  << SubSeq(text, 1, k - 1) >> \o split_lines(SubSeq(text, k + 1, Len(text)))

\* The length of the longest run of characters of a set that starts at
\* position p of s: what a greedy \d+ or \s+ takes there.
RECURSIVE run_at(_, _, _)
run_at(s, p, chars) ==
  IF p \in DOMAIN s /\ s[p] \in chars THEN 1 + run_at(s, p + 1, chars) ELSE 0

\* int(q) of a string of digits.
RECURSIVE int_str(_)
int_str(q) ==
  IF q = << >> THEN 0
  ELSE 10 * int_str(SubSeq(q, 1, Len(q) - 1)) + (ord(q[Len(q)]) - ord("0"))

\* (\d+)\s+(\d+)... for n groups matched at position p of s: the groups
\* as integers, << >> when there is no match.  Every \d+ and \s+ takes
\* its whole run: giving back a character never lets the next item match.
RECURSIVE numbers_at(_, _, _)
numbers_at(s, p, n) ==
  LET d == run_at(s, p, Digits)
      w == run_at(s, p + d, {" ", "\t", "\n"})
      rest == numbers_at(s, p + d + w, n - 1)
  IN  IF d = 0 THEN << >>
      ELSE IF n = 1 THEN << int_str(SubSeq(s, p, p + d - 1)) >>
      ELSE IF w = 0 \/ rest = << >> THEN << >>
      ELSE << int_str(SubSeq(s, p, p + d - 1)) >> \o rest

\* keyword is in s at position p.
starts_at(s, p, keyword) ==
  p + Len(keyword) - 1 <= Len(s) /\ SubSeq(s, p, p + Len(keyword) - 1) = keyword

\* The four groups of keyword\s+(\d+)\s+(\d+)\s+(\d+)\s+(\d+) matched
\* at position p.
keyword_at(s, p, keyword) ==
  LET q == p + Len(keyword)
      w == run_at(s, q, {" ", "\t", "\n"})
  IN  IF starts_at(s, p, keyword) /\ w > 0 THEN numbers_at(s, q + w, 4) ELSE << >>

\* The four groups of Enfants.*?(\d+)\s+(\d+)\s+(\d+)\s+(\d+) matched
\* at position p: the fewest characters of the line are skipped.
RECURSIVE lazy_numbers_at(_, _)
lazy_numbers_at(s, q) ==
  IF numbers_at(s, q, 4) # << >> THEN numbers_at(s, q, 4)
  ELSE IF q \in DOMAIN s /\ s[q] # "\n" THEN lazy_numbers_at(s, q + 1)
  ELSE << >>

\* re.search(pattern, text) for the pattern of a key of patterns: the
\* groups of the leftmost match as integers, << >> without a match.
RECURSIVE search_from(_, _, _)
search_from(s, p, keyword) ==
  IF p > Len(s) THEN << >>
  ELSE LET q == p + Len(keyword)
           here == IF keyword = title(ENFANTS)
                     THEN IF starts_at(s, p, keyword) THEN lazy_numbers_at(s, q) ELSE << >>
                     ELSE keyword_at(s, p, keyword)
       IN  IF here # << >> THEN here ELSE search_from(s, p + 1, keyword)

\* The keys of patterns, in the order of the dict (lines 311-317).
patterns == << title(ENFANTS), Standard, Sans_porc, Vegetarien, Halal >>

C13_jours_from_mardi(n) ==
  SubSeq(<< title(LUNDI), title(MARDI), title(MERCREDI), title(JEUDI), title(VENDREDI) >>, 2, n + 1)

\* jours[:len(quantites)] (lines 319 and 325).
pdf_jours(n) ==
  SubSeq(<< title(LUNDI), title(MARDI), title(MERCREDI), title(JEUDI), title(VENDREDI) >>, 1, n)

\* Lines 324-335 for one key: a record for every quantity above zero.
RECURSIVE quantity_records(_, _, _, _)
quantity_records(quantites, i, categorie, head) ==
  IF i > Len(quantites) THEN << >>
  ELSE (IF quantites[i] > 0
          THEN << [ecole |-> head.ecole,
                   ecole_normalized |-> head.ecole_normalized,
                   agent |-> head.agent,
                   jour_semaine |-> pdf_jours(Len(quantites))[i],
                   categorie |-> categorie,
                   quantite |-> quantites[i],
                   source_fichier |-> head.source_fichier] >>
          ELSE << >>)
       \o quantity_records(quantites, i + 1, categorie, head)

\* Lines 321-335 over the keys of patterns from the k-th on.
RECURSIVE pattern_records(_, _, _)
pattern_records(text, k, head) ==
  IF k > Len(patterns) THEN << >>
  ELSE quantity_records(search_from(text, 1, patterns[k]), 1, patterns[k], head)
         \o pattern_records(text, k + 1, head)

\* Lines 289-305: the school and the agent of a page, line by line.
pdf_metadata(text, stem) ==
  LET lines == split_lines(text)
      st == scan_metadata([k \in DOMAIN lines |-> StrCell(lines[k])],
                          [school_name |-> NoneName, agent_name |-> NoneName, period |-> NoneName])
  IN  IF falsy(st.school_name) THEN [st EXCEPT !.school_name = stem] ELSE st

\* extract_from_pdf(file_path) for a file of one page.
pdf_records(text, stem, maps, repl) ==
  IF text = << >> THEN << >>
  ELSE LET meta == pdf_metadata(text, stem)
       IN  pattern_records(text, 1,
             [ecole |-> meta.school_name,
              ecole_normalized |-> normalize_result(meta.school_name, maps, repl),
              agent |-> meta.agent_name,
              source_fichier |-> stem \o << ".", "p", "d", "f" >>])

\* ------------------------------------------------------------------ state

VARIABLES
  folder_path,          \* self.folder_path: "" or the folder chosen
  btn_process,          \* state of the button "Traiter les fichiers"
  extractor,            \* self.extractor: 0 for None, else the thread that built it
  db_path,              \* self.db_path: 0 for None, else the thread that set it
  thread,               \* the locals of each _process_files_thread
  store,                \* per extractor: its db_connection and its database
  mappings,             \* normalizer.mappings
  replacements,         \* normalizer.replacements
  found_schools,        \* normalizer.found_schools
  normalization_stats,  \* normalizer.normalization_stats
  call,                 \* the last call made on the normalizer and its result
  passed,               \* the names handed to normalize so far
  results,              \* a name and its successive normalizations
  sheet,                \* the sheet of the workbook being extracted
  page,                 \* the text of the page of the PDF being extracted
  data,                 \* the records extract_from_excel returned
  commandes,            \* the rows of the table commandes
  xl_pc                 \* where the handling of the workbook stands

gui_vars == << folder_path, btn_process >>
run_vars == << extractor, db_path, thread, store >>
cfg_vars == << mappings, replacements >>
rec_vars == << found_schools, normalization_stats >>
api_vars == << call, passed, results >>
xl_vars == << sheet, page, data, commandes, xl_pc >>
vars == << gui_vars, run_vars, cfg_vars, rec_vars, api_vars, xl_vars >>

Workers == 1..MaxWorkers

NoSummary ==
  [shown |-> FALSE, processed |-> 0, total_files |-> 0, errors |-> 0, total_records |-> 0]

\* A thread that has not been started.  Beside the locals of the code:
\* raised_at, the positions of the files whose handling raised; no_data,
\* the number of files handled without an exception and without a record;
\* sink_failed_at, the position of the first file whose append raised.
idle_thread ==
  [pc |-> "idle", total_files |-> 0, i |-> 0, processed |-> 0, errors |-> 0,
   total_records |-> 0, data |-> 0, progress |-> << 0, 0 >>, summary |-> NoSummary,
   critical |-> FALSE, raised_at |-> {}, no_data |-> 0, sink_failed_at |-> 0]

\* An extractor that does not exist yet.
no_store == [conn |-> "none", owner |-> 0, pending |-> 0, committed |-> 0]

NoCall == [op |-> "none", arg |-> << >>, result |-> << >>]

\* The normalizer after SchoolNameNormalizer.__init__.
InitNormalizer ==
  /\ mappings = EmptyMap
  /\ replacements = default_replacements
  /\ found_schools = {}
  /\ normalization_stats = EmptyMap
  /\ call = NoCall
  /\ passed = {}
  /\ results = << >>

\* No workbook is being extracted.
InitNoSheet ==
  /\ sheet = << >>
  /\ page = << >>
  /\ data = << >>
  /\ commandes = << >>
  /\ xl_pc = "ready"

\* The GUI after CrediExtractorGUI.__init__.
InitGui ==
  /\ folder_path = ""
  /\ btn_process = "disabled"
  /\ extractor = 0
  /\ db_path = 0
  /\ thread = [w \in Workers |-> idle_thread]
  /\ store = [w \in Workers |-> no_store]

\* ------------------------------------------------- _process_files_thread

\* The school names the files of a folder carry.
BatchNames == { STE \o SP \o ANNE }

\* The connection of extractor e can be used by thread w: it is open and
\* was made by w (sqlite3 refuses a connection made in another thread).
usable(e, w) == e # 0 /\ store[e].conn = "open" /\ store[e].owner = w

\* The effect on the normalizer of an extractor's call normalize(name).
normalizer_called(name) ==
  /\ found_schools' = found_after(found_schools, name)
  /\ normalization_stats' = stats_after(normalization_stats, name, mappings, replacements)
  /\ UNCHANGED << cfg_vars, api_vars >>

\* Lines 688-697: the database path, the extractor and its database.
create_database(w) ==
  /\ thread[w].pc = "start"
  /\ db_path' = w
  /\ extractor' = w
  /\ store' = [store EXCEPT ![w] = [conn |-> "open", owner |-> w, pending |-> 0, committed |-> 0]]
  /\ thread' = [thread EXCEPT ![w].pc = "list"]
  /\ UNCHANGED << gui_vars, cfg_vars, rec_vars, api_vars, xl_vars >>

\* Lines 694-695 when sqlite3.connect raises: the outer handler reports a
\* critical error.
create_database_raises(w) ==
  /\ thread[w].pc = "start"
  /\ db_path' = w
  /\ extractor' = w
  /\ thread' = [thread EXCEPT ![w].pc = "finally", ![w].critical = TRUE]
  /\ UNCHANGED << store, gui_vars, cfg_vars, rec_vars, api_vars, xl_vars >>

\* Lines 699-709 with no file found: a warning, and the return.
list_no_files(w) ==
  /\ thread[w].pc = "list"
  /\ thread' = [thread EXCEPT ![w].pc = "finally", ![w].total_files = 0]
  /\ UNCHANGED << extractor, db_path, store, gui_vars, cfg_vars, rec_vars, api_vars, xl_vars >>

\* Lines 699-714 with n files found.
list_files(w, n) ==
  /\ thread[w].pc = "list"
  /\ n > 0
  /\ thread' = [thread EXCEPT ![w].pc = "loop", ![w].total_files = n, ![w].i = 0,
                              ![w].processed = 0, ![w].errors = 0,
                              ![w].total_records = 0]
  /\ UNCHANGED << extractor, db_path, store, gui_vars, cfg_vars, rec_vars, api_vars, xl_vars >>

\* The loop has a next file.
has_next(w) == thread[w].pc = "loop" /\ thread[w].i < thread[w].total_files

C15_progress_not_shown(t) == [t EXCEPT !.i = t.i + 1]

\* Lines 716-720: the next file, and the progress shown.
next_file(t) ==
  [t EXCEPT !.i = t.i + 1, !.progress = << t.i + 1, t.total_files >>]

C1_extract_escapes(w) ==
  /\ has_next(w)
  /\ thread' = [thread EXCEPT ![w] = [next_file(@) EXCEPT !.pc = "finally",
                                                           !.critical = TRUE,
                                                           !.raised_at = @ \cup {thread[w].i + 1}]]
  /\ UNCHANGED << extractor, db_path, store, gui_vars, cfg_vars, rec_vars, api_vars, xl_vars >>

\* Lines 725-728 and 740-742: the extraction of the file raises.
extract_raises(w) ==
  /\ has_next(w)
  /\ thread' = [thread EXCEPT ![w] = [next_file(@) EXCEPT !.errors = @ + 1,
                                                           !.raised_at = @ \cup {thread[w].i + 1}]]
  /\ UNCHANGED << extractor, db_path, store, gui_vars, cfg_vars, rec_vars, api_vars, xl_vars >>

\* Lines 729-730: a suffix that is neither Excel nor PDF (a file named
\* ".xlsx" has the suffix ""): continue.
extract_skips(w) ==
  /\ has_next(w)
  /\ thread' = [thread EXCEPT ![w] = [next_file(@) EXCEPT !.no_data = @ + 1]]
  /\ UNCHANGED << extractor, db_path, store, gui_vars, cfg_vars, rec_vars, api_vars, xl_vars >>

C4_empty_counts_processed(w, name) ==
  /\ has_next(w)
  /\ name \in BatchNames
  /\ normalizer_called(name)
  /\ thread' = [thread EXCEPT ![w] = [next_file(@) EXCEPT !.data = 0,
                                                           !.no_data = @ + 1,
                                                           !.processed = @ + 1]]
  /\ UNCHANGED << extractor, db_path, store, gui_vars, xl_vars >>

\* Lines 725-738 for a file that yields no record: a warning.
extract_empty(w, name) ==
  /\ has_next(w)
  /\ name \in BatchNames
  /\ normalizer_called(name)
  /\ thread' = [thread EXCEPT ![w] = [next_file(@) EXCEPT !.data = 0,
                                                           !.no_data = @ + 1]]
  /\ UNCHANGED << extractor, db_path, store, gui_vars, xl_vars >>

\* Lines 725-732 for a file that yields n records.
extract_data(w, name, n) ==
  /\ has_next(w)
  /\ name \in BatchNames
  /\ n \in 1..MaxRecs
  /\ normalizer_called(name)
  /\ thread' = [thread EXCEPT ![w] = [next_file(@) EXCEPT !.data = n, !.pc = "save"]]
  /\ UNCHANGED << extractor, db_path, store, gui_vars, xl_vars >>

\* Lines 733-736: save_to_database inserts and commits, then the counters.
save_ok(w) ==
  /\ thread[w].pc = "save"
  /\ usable(extractor, w)
  /\ store' = [store EXCEPT ![extractor].committed = @ + store[extractor].pending + thread[w].data,
                            ![extractor].pending = 0]
  /\ thread' = [thread EXCEPT ![w].pc = "loop",
                              ![w].total_records = @ + thread[w].data,
                              ![w].processed = @ + 1]
  /\ UNCHANGED << extractor, db_path, gui_vars, cfg_vars, rec_vars, api_vars, xl_vars >>

\* Lines 733 and 740-742: save_to_database raises after k rows were
\* inserted (k = len(data): the commit raises); without a usable connection
\* it raises before any row.
save_raises(w, k) ==
  /\ thread[w].pc = "save"
  /\ k \in 0..thread[w].data
  /\ ~usable(extractor, w) => k = 0
  /\ store' = IF usable(extractor, w)
                THEN [store EXCEPT ![extractor].pending = @ + k]
                ELSE store
  /\ thread' = [thread EXCEPT ![w].pc = "loop",
                              ![w].errors = @ + 1,
                              ![w].raised_at = @ \cup {thread[w].i},
                              ![w].sink_failed_at =
                                 IF @ = 0 THEN thread[w].i ELSE @]
  /\ UNCHANGED << extractor, db_path, gui_vars, cfg_vars, rec_vars, api_vars, xl_vars >>

\* The loop is over.
loop_done(w) == thread[w].pc = "loop" /\ thread[w].i = thread[w].total_files

\* close_database() by thread w raises: the connection was made by another
\* thread.
close_refused(w) ==
  extractor # 0 /\ store[extractor].conn # "none" /\ store[extractor].owner # w

\* Lines 744-773: the database closed (what was not committed is lost),
\* the summary logged and shown.
finish(w) ==
  /\ loop_done(w)
  /\ ~close_refused(w)
  /\ store' = IF extractor # 0 /\ store[extractor].conn # "none"
                THEN [store EXCEPT ![extractor].conn = "closed", ![extractor].pending = 0]
                ELSE store
  /\ thread' = [thread EXCEPT ![w].pc = "finally",
                              ![w].summary =
                                 [shown |-> TRUE,
                                  processed |-> thread[w].processed,
                                  total_files |-> thread[w].total_files,
                                  errors |-> thread[w].errors,
                                  total_records |-> thread[w].total_records]]
  /\ UNCHANGED << extractor, db_path, gui_vars, cfg_vars, rec_vars, api_vars, xl_vars >>

\* Lines 745 and 775-777: close_database raises, a critical error.
finish_raises(w) ==
  /\ loop_done(w)
  /\ close_refused(w)
  /\ thread' = [thread EXCEPT ![w].pc = "finally", ![w].critical = TRUE]
  /\ UNCHANGED << extractor, db_path, store, gui_vars, cfg_vars, rec_vars, api_vars, xl_vars >>

\* Lines 779-780: the button enabled again, the thread ends.
finally(w) ==
  /\ thread[w].pc = "finally"
  /\ btn_process' = "normal"
  /\ thread' = [thread EXCEPT ![w].pc = "done"]
  /\ UNCHANGED << folder_path, extractor, db_path, store, cfg_vars, rec_vars, api_vars, xl_vars >>

\* One step of thread w in a folder of at most max_n files.
thread_step(w, max_n) ==
  \/ create_database(w)
  \/ create_database_raises(w)
  \/ list_no_files(w)
  \/ \E n \in 1..max_n : list_files(w, n)
  \/ extract_raises(w)
  \/ extract_skips(w)
  \/ \E name \in BatchNames : extract_empty(w, name)
  \/ \E name \in BatchNames, n \in 1..MaxRecs : extract_data(w, name, n)
  \/ save_ok(w)
  \/ \E k \in 0..MaxRecs : save_raises(w, k)
  \/ finish(w)
  \/ finally(w)

\* One run of the batch: process_files has started thread 1 on a chosen
\* folder, and nothing else acts.
Init ==
  /\ InitNormalizer
  /\ InitNoSheet
  /\ folder_path = "dir"
  /\ btn_process = "disabled"
  /\ extractor = 0
  /\ db_path = 0
  /\ thread = [w \in Workers |-> IF w = 1 THEN [idle_thread EXCEPT !.pc = "start"] ELSE idle_thread]
  /\ store = [w \in Workers |-> no_store]

Next == \E w \in Workers : thread_step(w, MaxFiles)

Spec == Init /\ [][Next]_vars


\* ------------------------------------------------------ CrediExtractorGUI

\* The threads that run _process_files_thread.
Active == {w \in Workers : thread[w].pc \notin {"idle", "done"}}

\* select_folder with a folder chosen in the dialog.
select_folder ==
  /\ folder_path' = "dir"
  /\ btn_process' = "normal"
  /\ UNCHANGED << run_vars, cfg_vars, rec_vars, api_vars, xl_vars >>

\* process_files, run by a click on the enabled button: the button is
\* disabled and a new thread is started.
process_files ==
  /\ btn_process = "normal"
  /\ folder_path # ""
  /\ \E w \in Workers :
       /\ thread[w].pc = "idle"
       /\ \A v \in Workers : v < w => thread[v].pc # "idle"
       /\ thread' = [thread EXCEPT ![w].pc = "start"]
  /\ btn_process' = "disabled"
  /\ UNCHANGED << folder_path, extractor, db_path, store, cfg_vars, rec_vars, api_vars, xl_vars >>

\* load_mapping with a file chosen in the dialog: load_mapping_file(file).
load_mapping(file) ==
  /\ replacements' = replacements_after(replacements, file)
  /\ mappings' = mappings_after(mappings, file)
  /\ call' = [op |-> "load_mapping_file", arg |-> << >>, result |-> load_ok(file)]
  /\ UNCHANGED << gui_vars, run_vars, rec_vars, passed, results, xl_vars >>

InitGuiSpec == InitNormalizer /\ InitGui /\ InitNoSheet

NextGui ==
  \/ select_folder
  \/ process_files
  \/ \E file \in ConfigFiles : load_mapping(file)
  \/ \E w \in Workers : thread_step(w, MaxGuiFiles)
  \/ \E w \in Workers : finish_raises(w)

SpecGui == InitGuiSpec /\ [][NextGui]_vars


\* ------------------------------------------- calls on the normalizer

\* " sté anne" and "École".
ste_accent_anne == << " ", "s", "t", "U+00E9", " ", "a", "n", "n", "e" >>
Ecole_accent == << "U+00C9", "c", "o", "l", "e" >>

\* The names handed to normalize: absent, empty, lower case and accented
\* spellings, a name that is already canonical, a name the default rule
\* chain empties.
NormNames ==
  { NoneName, << >>, ste_anne, ste_accent_anne, SAINTE \o SP \o ANNE, Ecole_accent }

\* The effects of normalize(school_name) on the normalizer, and the value
\* returned.
normalize_call(school_name) ==
  /\ found_schools' = found_after(found_schools, school_name)
  /\ normalization_stats' =
       stats_after(normalization_stats, school_name, mappings, replacements)
  /\ call' = [op |-> "normalize", arg |-> school_name,
              result |-> normalize_result(school_name, mappings, replacements)]
  /\ passed' = passed \cup {school_name}
  /\ UNCHANGED << gui_vars, run_vars, cfg_vars, xl_vars >>

\* normalize(school_name).
normalize(school_name) ==
  /\ normalize_call(school_name)
  /\ UNCHANGED results

\* export_found_schools(output_dir): the document written.
export_found_schools ==
  /\ call' = [op |-> "export_found_schools", arg |-> << >>,
              result |-> export_document(found_schools)]
  /\ UNCHANGED << gui_vars, run_vars, cfg_vars, rec_vars, passed, results, xl_vars >>

\* get_normalization_report().
get_normalization_report ==
  /\ call' = [op |-> "get_normalization_report", arg |-> << >>,
              result |-> normalization_report(normalization_stats)]
  /\ UNCHANGED << gui_vars, run_vars, cfg_vars, rec_vars, passed, results, xl_vars >>

NextNorm ==
  \/ get_normalization_report
  \/ \E name \in NormNames : normalize(name)
  \/ \E file \in ConfigFiles : load_mapping(file)
  \/ export_found_schools

SpecNorm == InitGuiSpec /\ [][NextNorm]_vars

\* ------------------------------------------- repeated normalization

\* The names normalized again and again: at most MaxNameWords of the words
\* CANTINE, SCOLAIRE and ET, with a space or a plus sign between two words.
RECURSIVE IterNamesOf(_)
IterNamesOf(n) ==
  LET words == { CANTINE, SCOLAIRE, ET }
  IN  IF n = 1 THEN words
      ELSE LET shorter == IterNamesOf(n - 1)
           IN  shorter \cup { s \o sep \o w : s \in shorter, sep \in { SP, PLUS }, w \in words }

IterNames == IterNamesOf(MaxNameWords)

\* The mapping tables of the repeated normalization: none, and one entry
\* whose value is kept as written.
IterMappings ==
  { EmptyMap, [k \in { ET } |-> CANTINE \o SP \o ET \o SP \o SCOLAIRE] }

\* normalize(name), then normalize of what it returned, three times in all.
normalize_again ==
  /\ Len(results) < 4
  /\ normalize_call(results[Len(results)])
  /\ results' = Append(results, normalize_result(results[Len(results)], mappings, replacements))

InitIter ==
  /\ InitGui
  /\ InitNoSheet
  /\ mappings \in IterMappings
  /\ replacements = default_replacements
  /\ found_schools = {}
  /\ normalization_stats = EmptyMap
  /\ call = NoCall
  /\ passed = {}
  /\ results \in { << n >> : n \in IterNames }

NextIter == normalize_again

SpecIter == InitIter /\ [][NextIter]_vars


\* ------------------------------------------- the handling of a workbook

\* The rows a sheet is made of: three columns, the first for the labels.
PreambleRows ==
  { << StrCell(<< "E", "c", "o", "l", "e", ":", " " >> \o ste_accent_anne), NoneCell, NoneCell >> }

HeaderRows ==
  { << NoneCell, StrCell(title(LUNDI)), StrCell(title(MARDI)) >>,
    << StrCell(<< " " >> \o lower(LUNDI)), NoneCell, StrCell(MARDI) >> }

\* The values of a quantity cell: empty, 0, 3 and 0.5.
QuantityCells == { NoneCell, IntCell(0), IntCell(3), FloatCell(1) }

BodyRows ==
  { << StrCell(title(ENFANTS)), NoneCell, NoneCell >>,
    << StrCell(ADULTES), NoneCell, NoneCell >>,
    << StrCell(Total), IntCell(5), IntCell(5) >>,
    << StrCell(Halal), IntCell(-1), StrCell(<< "3" >>) >>,
    << StrCell(Standard), StrCell(title(VENDREDI)), FloatCell(5) >> }
  \cup { << StrCell(Standard), q1, q2 >> : q1 \in QuantityCells, q2 \in {NoneCell, IntCell(3)} }

\* The sequences of at most n rows of a set.
RECURSIVE SeqsUpTo(_, _)
SeqsUpTo(S, n) ==
  IF n = 0 THEN { << >> }
  ELSE LET shorter == SeqsUpTo(S, n - 1)
       IN  shorter \cup { Append(q, x) : q \in shorter, x \in S }

\* The sheet of the example: the header in row 3, a type row, a category
\* row.
ExampleSheet ==
  << << StrCell(RESTAURANT \o << " ", ":", " " >> \o ste_anne),
        NoneCell, NoneCell, NoneCell, NoneCell, NoneCell >>,
     << NoneCell, NoneCell, NoneCell, NoneCell, NoneCell, NoneCell >>,
     << NoneCell, StrCell(title(LUNDI)), StrCell(title(MARDI)), StrCell(title(MERCREDI)),
        StrCell(title(JEUDI)), StrCell(title(VENDREDI)) >>,
     << StrCell(title(ENFANTS)), NoneCell, NoneCell, NoneCell, NoneCell, NoneCell >>,
     << StrCell(Standard), IntCell(10), IntCell(0), IntCell(5), IntCell(0), IntCell(3) >> >>

\* A sheet whose body changes the type: a category row before any type row,
\* a type row, a category row, a type row in lower case, a row that is
\* neither a type nor a category, a category row.
TypedSheet ==
  << << NoneCell, StrCell(title(LUNDI)), StrCell(title(MARDI)) >>,
     << StrCell(Halal), IntCell(3), NoneCell >>,
     << StrCell(title(ENFANTS)), IntCell(5), NoneCell >>,
     << StrCell(Standard), IntCell(3), IntCell(3) >>,
     << StrCell(lower(ADULTES)), NoneCell, NoneCell >>,
     << StrCell(Total), IntCell(5), IntCell(5) >>,
     << StrCell(Sans_porc), NoneCell, IntCell(3) >> >>

\* The sheets extracted: with or without a preamble row, with or without a
\* header row, then at most MaxBodyRows rows.
Sheets ==
  { pre \o head \o body :
      pre \in SeqsUpTo(PreambleRows, 1),
      head \in SeqsUpTo(HeaderRows, 1),
      body \in SeqsUpTo(BodyRows, MaxBodyRows) }
  \cup { ExampleSheet, TypedSheet }

\* Path(file_path).stem of the workbook.
file_stem == ste_anne

\* Lines 725-726: data = extract_from_excel(file_path); the school name
\* found is normalized.
extract_from_excel ==
  /\ xl_pc = "ready"
  /\ data' = excel_records(sheet, file_stem, mappings, replacements)
  /\ normalizer_called(metadata(sheet, file_stem).school_name)
  /\ xl_pc' = "extracted"
  /\ UNCHANGED << gui_vars, run_vars, sheet, page, commandes >>

\* record.get(key): None for a key the record does not have.
get(record, key) == IF key \in DOMAIN record THEN record[key] ELSE NoneName

\* The row save_to_database inserts for a record: record.get(column).
inserted_row(record) ==
  [ecole |-> get(record, "ecole"),
   ecole_normalized |-> get(record, "ecole_normalized"),
   agent |-> get(record, "agent"),
   jour_semaine |-> get(record, "jour_semaine"),
   type_repas |-> get(record, "type_repas"),
   categorie |-> get(record, "categorie"),
   quantite |-> get(record, "quantite"),
   source_fichier |-> get(record, "source_fichier")]

\* Lines 732-736: the records are saved when there are any.
save_to_database ==
  /\ xl_pc = "extracted"
  /\ data # << >>
  /\ commandes' = commandes \o [k \in DOMAIN data |-> inserted_row(data[k])]
  /\ xl_pc' = "saved"
  /\ UNCHANGED << gui_vars, run_vars, cfg_vars, rec_vars, api_vars, sheet, page, data >>

\* Lines 737-738: no record, a warning.
no_data_extracted ==
  /\ xl_pc = "extracted"
  /\ data = << >>
  /\ xl_pc' = "warned"
  /\ UNCHANGED << gui_vars, run_vars, cfg_vars, rec_vars, api_vars, sheet, page, data, commandes >>

InitSheet ==
  /\ InitNormalizer
  /\ InitGui
  /\ sheet \in Sheets
  /\ page = << >>
  /\ data = << >>
  /\ commandes = << >>
  /\ xl_pc = "ready"

NextSheet ==
  \/ extract_from_excel
  \/ save_to_database
  \/ no_data_extracted

SpecSheet == InitSheet /\ [][NextSheet]_vars

\* ------------------------------------------------ the handling of a PDF

\* The runs of at most n numbers 0 and 4, one space between two numbers.
RECURSIVE RunsOf(_)
RunsOf(n) ==
  IF n = 0 THEN { << >> }
  ELSE LET shorter == RunsOf(n - 1)
       IN  shorter \cup { IF r = << >> THEN d ELSE r \o SP \o d :
                            r \in shorter, d \in { << "0" >>, << "4" >> } }

\* The page of the example, an empty page, and a page of two categories
\* with numbers of two digits.
ExamplePage == Standard \o << " ", "4", " ", "0", " ", "2", " ", "1" >>

SpecialPages ==
  { ExamplePage,
    << >>,
    Standard \o << " ", "1", "2", " ", " ", "0", " ", "4", " ", "4", "\n" >>
      \o Halal \o << " ", "0", " ", "0", "\n", "0", " ", "7" >> }

\* The pages extracted: a line of a keyword and a run of numbers, alone or
\* after a line that names the school, after a line "Enfants", or after
\* the word "Enfants" on the same line.
Pages ==
  { pre \o keyword \o SP \o run :
      pre \in { << >>,
                ECOLE \o << ":", " " >> \o ste_anne \o << "\n" >>,
                title(ENFANTS) \o << "\n" >>,
                title(ENFANTS) \o SP },
      keyword \in { Standard, Sans_porc, title(ENFANTS), Total },
      run \in RunsOf(MaxRun) }
  \cup SpecialPages

\* Lines 727-728: data = extract_from_pdf(file_path); the school name
\* found is normalized.
extract_from_pdf ==
  /\ xl_pc = "ready"
  /\ data' = pdf_records(page, file_stem, mappings, replacements)
  /\ IF page = << >>
       THEN UNCHANGED << cfg_vars, rec_vars, api_vars >>
       ELSE normalizer_called(pdf_metadata(page, file_stem).school_name)
  /\ xl_pc' = "extracted"
  /\ UNCHANGED << gui_vars, run_vars, sheet, page, commandes >>

InitPage ==
  /\ InitNormalizer
  /\ InitGui
  /\ sheet = << >>
  /\ page \in Pages
  /\ data = << >>
  /\ commandes = << >>
  /\ xl_pc = "ready"

NextPage ==
  \/ extract_from_pdf
  \/ save_to_database
  \/ no_data_extracted

SpecPage == InitPage /\ [][NextPage]_vars

\* ---------------------------------------------------------------- claims

\* The run of thread w has ended with its summary.
summarized(w) == thread[w].pc = "done" /\ thread[w].summary.shown

\* C1: whatever file raises, the error counter counts it, every later file
\* is still handled and the run ends with its summary: the errors are as
\* many as the files that raised, no exception of a file reaches the outer
\* handler, and a run over at least one file ends past its last file with
\* the summary shown.
C1_FailureIsolation ==
  \A w \in Workers :
    LET t == thread[w]
    IN  /\ t.errors = Cardinality(t.raised_at)
        /\ t.raised_at \subseteq 1..t.i
        /\ t.critical => t.raised_at = {}
        /\ (t.pc \in {"finally", "done"} /\ t.total_files > 0) =>
             /\ t.i = t.total_files
             /\ t.summary.shown
             /\ t.summary.errors = Cardinality(t.raised_at)
             /\ t.summary.total_files = t.total_files

\* Five files, the third raises: one error, four files processed.
C1_Witness ==
  \E w \in Workers :
    /\ summarized(w)
    /\ thread[w].total_files = 5
    /\ thread[w].raised_at = {3}
    /\ thread[w].summary.errors = 1
    /\ thread[w].summary.processed = 4

\* C2: once save_to_database has raised for a file, the run is over: no
\* later file is handled and no summary is shown.
C2_SinkFailureFatal ==
  \A w \in Workers :
    thread[w].sink_failed_at > 0 =>
      /\ thread[w].i = thread[w].sink_failed_at
      /\ ~thread[w].summary.shown

\* C3: at most one thread runs the batch, and while one runs no step
\* changes the rule chain or the mapping table (the thread itself never
\* writes them) nor starts another thread.
C3_SoleWriter ==
  [][ /\ Cardinality(Active') <= 1
      /\ Active # {} => (replacements' = replacements /\ mappings' = mappings) ]_vars

\* C4 as stated: at the end the errors are the files that raised and the
\* processed are all the others.
C4_ProcessedPlusErrored ==
  \A w \in Workers :
    summarized(w) =>
      /\ thread[w].summary.errors = Cardinality(thread[w].raised_at)
      /\ thread[w].summary.processed + thread[w].summary.errors = thread[w].total_files

\* C4 amended: the errors are the files that raised, the processed are the
\* files that did not raise and yielded at least one record; the files
\* handled so far are the processed, the errored, those without a record
\* and the one being saved.
C4_CounterAccounting ==
  \A w \in Workers :
    LET t == thread[w]
    IN  /\ t.errors = Cardinality(t.raised_at)
        /\ t.processed + t.errors + t.no_data + (IF t.pc = "save" THEN 1 ELSE 0) = t.i
        /\ summarized(w) =>
             /\ t.summary.errors = t.errors
             /\ t.summary.processed = t.processed
             /\ t.summary.processed + t.summary.errors + t.no_data = t.total_files

\* Five files: one raises, one yields nothing, three are processed.
C4_Witness ==
  \E w \in Workers :
    /\ summarized(w)
    /\ thread[w].total_files = 5
    /\ thread[w].summary.errors = 1
    /\ thread[w].no_data = 1
    /\ thread[w].summary.processed = 3


\* C5: every row of the table commandes has a quantity above zero.
C5_QuantityPositive ==
  \A k \in DOMAIN commandes : commandes[k].quantite > 0


\* The last call on the normalizer was normalize of a name that is neither
\* empty nor absent.
normalized_a_name == call.op = "normalize" /\ ~falsy(call.arg)

\* C6: normalize of an empty or absent name returns ECOLE_INCONNUE and
\* leaves the found set, the consolidation index, the rule chain and the
\* mapping table as they were.
C6_EmptyNameRecordsNothing ==
  [][ (call'.op = "normalize" /\ falsy(call'.arg)) =>
        /\ call'.result = ECOLE_INCONNUE
        /\ found_schools' = found_schools
        /\ normalization_stats' = normalization_stats
        /\ replacements' = replacements
        /\ mappings' = mappings ]_vars

\* An empty or absent name was normalized after other names were recorded.
C6_Witness ==
  /\ call.op = "normalize"
  /\ falsy(call.arg)
  /\ call.result = ECOLE_INCONNUE
  /\ found_schools # {}
  /\ DOMAIN normalization_stats # {}

\* C7: a name whose key is in the mapping table is returned as the mapped
\* value, exactly, whatever the rule chain.
C7_MappingShortCircuits ==
  (normalized_a_name /\ mapping_key(call.arg) \in DOMAIN mappings) =>
     call.result = mappings[mapping_key(call.arg)]

\* A mapped value with lower case letters and two spaces was returned
\* under a loaded rule chain; so was the empty mapped value.
C7_Witness ==
  /\ normalized_a_name
  /\ mapping_key(call.arg) \in DOMAIN mappings
  /\ call.arg = ste_accent_anne
  /\ call.result = Ste__Anne
  /\ replacements # default_replacements

\* C8 as stated: after normalize of a name, the name is in the found set
\* and is listed in the index under the result, also when it equals the
\* result.
C8_AlwaysIndexed ==
  normalized_a_name =>
    /\ call.arg \in found_schools
    /\ call.result \in DOMAIN normalization_stats
    /\ call.arg \in Range(normalization_stats[call.result])

\* C8 amended: after normalize of a name, the name is in the found set; it
\* is listed in the index under the result when it differs from the
\* result, and the index is left as it was when it equals the result.
C8_IndexedWhenChanged ==
  [][ (call'.op = "normalize" /\ ~falsy(call'.arg)) =>
        /\ call'.arg \in found_schools'
        /\ IF call'.arg # call'.result
             THEN /\ call'.result \in DOMAIN normalization_stats'
                  /\ call'.arg \in Range(normalization_stats'[call'.result])
             ELSE normalization_stats' = normalization_stats ]_vars

\* A name equal to its result was normalized: it is found, not indexed.
C8_Witness ==
  /\ normalized_a_name
  /\ call.arg = call.result
  /\ call.arg \in found_schools
  /\ call.result \notin DOMAIN normalization_stats
  /\ DOMAIN normalization_stats # {}

\* The exported list holds name exactly once.
exported_once(name) ==
  Cardinality({k \in DOMAIN call.result.schools : call.result.schools[k] = name}) = 1

\* The exported list is sorted without duplicates and total_schools is its
\* length.
export_well_formed ==
  /\ \A k \in 1..(Len(call.result.schools) - 1) :
        str_lt(call.result.schools[k], call.result.schools[k + 1])
  /\ call.result.total_schools = Len(call.result.schools)

\* C9 as stated: every name handed to normalize is exactly once in the
\* exported list, which is sorted, without duplicates, of length
\* total_schools.
C9_EveryNameExported ==
  call.op = "export_found_schools" =>
    /\ \A name \in passed : exported_once(name)
    /\ export_well_formed

\* C9 amended: every name handed to normalize that is neither empty nor
\* absent is exactly once in the exported list, which is sorted, without
\* duplicates, of length total_schools.
C9_EveryNonEmptyNameExported ==
  call.op = "export_found_schools" =>
    /\ \A name \in passed : ~falsy(name) => exported_once(name)
    /\ export_well_formed

\* An export after the empty name and three other names were normalized.
C9_Witness ==
  /\ call.op = "export_found_schools"
  /\ << >> \in passed
  /\ call.result.total_schools >= 3

\* C10: with the built-in rule chain, with or without mapping entries, the
\* third normalization of a name equals the second.
C10_FixedPointAfterTwo ==
  Len(results) = 4 => results[4] = results[3]


\* C11: load_mapping_file of a file that cannot be read or parsed, or with
\* a replacements entry lacking 'pattern' or 'replace', returns False; and
\* a load that returns False leaves the rule chain and the mapping table
\* as they were, both of them.
C11_FailedLoadKeepsConfiguration ==
  [][ /\ \A file \in ConfigFiles :
           ( /\ load_mapping(file)
             /\ \/ ~file.json_ok
                \/ \E k \in DOMAIN file.replacements :
                      ~file.replacements[k].has_pattern \/ ~file.replacements[k].has_replace )
           => call'.result = FALSE
      /\ (call'.op = "load_mapping_file" /\ call'.result = FALSE) =>
           (replacements' = replacements /\ mappings' = mappings) ]_vars

\* A load failed after a rule chain and a mapping table had been loaded:
\* both are kept.
C11_Witness ==
  /\ call.op = "load_mapping_file"
  /\ call.result = FALSE
  /\ mappings = some_mappings
  /\ replacements # default_replacements


\* C12: for a sheet that ends with a weekday header row, a type row and a
\* category row, the records extracted are, in the order of the columns,
\* one for each weekday column whose cell in the category row is a number
\* above zero, and no other; each carries the category, the weekday of
\* the column, the type of the type row and the quantity of the cell.
C12_CategoryRowRecords ==
  xl_pc # "ready" =>
    \A h \in DOMAIN sheet :
      LET weekday(cell) == cell.t = "str" /\ strip(upper(cell.s)) \in jours
          is_header(r) == \E c \in DOMAIN sheet[r] : weekday(sheet[r][c])
          label(r) == sheet[r][1]
      IN  ( /\ is_header(h)
            /\ \A r \in 1..(h - 1) : ~is_header(r)
            /\ Len(sheet) = h + 2
            /\ label(h + 1).t = "str"
            /\ upper(strip(label(h + 1).s)) \in types_repas
            /\ label(h + 2).t = "str"
            /\ strip(label(h + 2).s) \in categories )
          =>
          LET row == sheet[h + 2]
              cols == { c \in DOMAIN sheet[h] :
                          /\ weekday(sheet[h][c])
                          /\ c \in DOMAIN row
                          /\ row[c].t \in {"int", "float"}
                          /\ row[c].n > 0 }
              rank(c) == Cardinality({ d \in cols : d <= c })
          IN  /\ Len(data) = Cardinality(cols)
              /\ \A c \in cols :
                   LET rec == data[rank(c)]
                   IN  /\ rec.categorie = strip(label(h + 2).s)
                       /\ rec.type_repas = title(strip(label(h + 1).s))
                       /\ rec.jour_semaine = title(strip(upper(sheet[h][c].s)))
                       /\ IF row[c].t = "float"
                            THEN 2 * rec.quantite = row[c].n
                            ELSE rec.quantite = row[c].n


\* C13: on a page whose words are separated by white space, no record is
\* of Vendredi; and for every category, when the page has no place where
\* the keyword is followed by four numbers there is no record of the
\* category, and otherwise its records are, for the first such place and
\* in this order, one for each of the four numbers that is above zero,
\* the i-th number on the i-th of Lundi, Mardi, Mercredi, Jeudi; so at
\* most four.
C13_TextBlockRecords ==
  xl_pc # "ready" =>
    /\ \A k \in DOMAIN data : data[k].jour_semaine # title(VENDREDI)
    /\ \A c \in categories :
         LET recs == SelectSeq(data, LAMBDA r : r.categorie = c)
             words == split(page)
             key == split(c)
             number(w) == w # << >> /\ \A k \in DOMAIN w : w[k] \in Digits
             places == { i \in DOMAIN words :
                           /\ i + Len(key) + 3 <= Len(words)
                           /\ \A m \in DOMAIN key : words[i + m - 1] = key[m]
                           /\ \A j \in 1..4 : number(words[i + Len(key) + j - 1]) }
         IN  /\ Len(recs) <= 4
             /\ IF places = {} THEN recs = << >>
                ELSE LET i == CHOOSE a \in places : \A b \in places : a <= b
                         value(j) == int_str(words[i + Len(key) + j - 1])
                         days == << title(LUNDI), title(MARDI), title(MERCREDI), title(JEUDI) >>
                         positive == { j \in 1..4 : value(j) > 0 }
                         rank(j) == Cardinality({ d \in positive : d <= j })
                     IN  /\ Len(recs) = Cardinality(positive)
                         /\ \A j \in positive :
                              /\ recs[rank(j)].jour_semaine = days[j]
                              /\ recs[rank(j)].quantite = value(j)

\* The page "Standard 4 0 2 1" was extracted: Lundi 4, Mercredi 2, Jeudi 1.
C13_Witness ==
  /\ xl_pc # "ready"
  /\ page = ExamplePage
  /\ Len(data) = 3
  /\ \A k \in 1..3 : data[k].categorie = Standard
  /\ data[1].jour_semaine = title(LUNDI) /\ data[1].quantite = 4
  /\ data[2].jour_semaine = title(MERCREDI) /\ data[2].quantite = 2
  /\ data[3].jour_semaine = title(JEUDI) /\ data[3].quantite = 1


\* C14: every record extracted, from a sheet or from a page, has one of
\* the categories Standard, Sans porc, Vegetarien, Halal; none has a type
\* of meal such as Enfants for its category.
C14_CategoryVocabulary ==
  \A k \in DOMAIN data :
    /\ data[k].categorie \in categories
    /\ upper(data[k].categorie) \notin types_repas


\* C15: in a run, the total of files is fixed once the files are listed;
\* the number of files shown as handled never decreases, never exceeds
\* the total, and grows by one with every file taken from the list,
\* whatever becomes of the file, and with nothing else.
C15_ProgressMonotonic ==
  [][ \A w \in Workers :
        LET t == thread[w]
            u == thread'[w]
        IN  /\ u.progress[1] >= t.progress[1]
            /\ u.progress[1] <= u.total_files
            /\ t.pc \notin {"idle", "start", "list"} => u.total_files = t.total_files
            /\ t.progress # << 0, 0 >> => u.progress[2] = t.progress[2]
            /\ u.progress # << 0, 0 >> => u.progress[2] = u.total_files
            /\ u.i = t.i + 1 => (u.progress[1] = t.progress[1] + 1 /\ u.progress[1] = u.i)
            /\ u.i = t.i => u.progress = t.progress ]_vars

\* A run over five files has ended with 5 / 5 shown: one file raised, one
\* yielded nothing, the others were saved.
C15_Witness ==
  \E w \in Workers :
    /\ thread[w].pc = "done"
    /\ thread[w].progress = << 5, 5 >>
    /\ thread[w].errors = 1
    /\ thread[w].no_data = 1
    /\ thread[w].processed = 3


\* C16 as stated, for names normalized under the built-in configuration:
\* the report lists a canonical name if and only if more than one of the
\* distinct names found was normalized to it.
C16_ListedIffSeveralOriginals ==
  ( /\ call.op = "get_normalization_report"
    /\ mappings = EmptyMap
    /\ replacements = default_replacements ) =>
    \A name \in found_schools :
      LET canonical == normalize_result(name, mappings, replacements)
          originals == { n \in found_schools :
                           normalize_result(n, mappings, replacements) = canonical }
      IN  (\E k \in DOMAIN call.result.listed : call.result.listed[k].canonical = canonical)
            <=> Cardinality(originals) > 1

\* C16 amended: the report lists a canonical name, with the originals the
\* index holds under it, if and only if the index holds more than one
\* original under it; and under the built-in configuration the originals
\* the index holds under a canonical name are the distinct names found
\* that were normalized to it and differ from it.
C16_ListedIffSeveralVariations ==
  call.op = "get_normalization_report" =>
    /\ \A k \in DOMAIN call.result.listed :
         LET e == call.result.listed[k]
         IN  /\ e.canonical \in DOMAIN normalization_stats
             /\ e.variations = normalization_stats[e.canonical]
             /\ \A j \in DOMAIN call.result.listed :
                  call.result.listed[j].canonical = e.canonical => j = k
    /\ \A c \in DOMAIN normalization_stats :
         (\E k \in DOMAIN call.result.listed : call.result.listed[k].canonical = c)
           <=> Cardinality(Range(normalization_stats[c])) > 1
    /\ (mappings = EmptyMap /\ replacements = default_replacements) =>
         \A name \in found_schools :
           LET canonical == normalize_result(name, mappings, replacements)
               changed == { n \in found_schools :
                              /\ normalize_result(n, mappings, replacements) = canonical
                              /\ n # canonical }
           IN  (\E k \in DOMAIN call.result.listed : call.result.listed[k].canonical = canonical)
                 <=> Cardinality(changed) > 1

\* A report that lists SAINTE ANNE with two variations and omits a
\* canonical name of one variation, the name SAINTE ANNE itself being
\* among the names found.
C16_Witness ==
  /\ call.op = "get_normalization_report"
  /\ Len(call.result.listed) = 1
  /\ call.result.listed[1].canonical = SAINTE \o SP \o ANNE
  /\ Len(call.result.listed[1].variations) = 2
  /\ call.result.consolidated = 2
  /\ SAINTE \o SP \o ANNE \in found_schools


\* C17: without a weekday cell in the sheet nothing is extracted;
\* otherwise the header is the first row with a weekday cell, the columns
\* of the weekdays are those of the cells of that row alone, whatever the
\* rows after it hold, and the records are those of the rows after the
\* header read with these columns.
C17_HeaderRowOnly ==
  xl_pc # "ready" =>
    LET weekday(cell) == cell.t = "str" /\ strip(upper(cell.s)) \in jours
        is_header(r) == \E c \in DOMAIN sheet[r] : weekday(sheet[r][c])
        headers == { r \in DOMAIN sheet : is_header(r) }
    IN  IF headers = {} THEN data = << >>
        ELSE LET h == CHOOSE r \in headers : \A q \in headers : r <= q
                 columns == scan_cells(sheet[h], h, 0,
                              [header_row |-> 0, jours_colonnes |-> << >>]).jours_colonnes
                 expected == body_rows(sheet, h + 1, columns, NoneName)
             IN  /\ Len(data) = Len(expected)
                 /\ \A k \in DOMAIN data :
                      /\ data[k].jour_semaine = expected[k].jour_semaine
                      /\ data[k].categorie = expected[k].categorie
                      /\ data[k].type_repas = expected[k].type_repas
                      /\ data[k].quantite = expected[k].quantite


\* C18: the types of the records of a sheet are, row after row below the
\* header, those of the category rows: every record of a category row has
\* the type named, in any letter case, by the nearest type row above it
\* and below the header, none when there is no such row; type rows and
\* other rows give no record.
C18_TypeContext ==
  (xl_pc # "ready" /\ find_header(sheet).jours_colonnes # << >>) =>
    LET h == find_header(sheet).header_row
        columns == find_header(sheet).jours_colonnes
        label(r) == first_cell_of(sheet[r])
        is_type(r) == upper(label(r)) \in types_repas
        is_category(r) == ~is_type(r) /\ label(r) \in categories
        context(r) ==
          LET above == { q \in (h + 1)..(r - 1) : is_type(q) }
          IN  IF above = {} THEN NoneName
              ELSE title(label(CHOOSE q \in above : \A p \in above : p <= q))
        count(r) ==
          Cardinality({ i \in DOMAIN columns :
                          /\ columns[i][1] + 1 \in DOMAIN sheet[r]
                          /\ sheet[r][columns[i][1] + 1].t \in {"int", "float"}
                          /\ sheet[r][columns[i][1] + 1].n > 0 })
        RECURSIVE types_from(_)
        types_from(r) ==
          IF r > Len(sheet) THEN << >>
          ELSE (IF is_category(r) THEN [k \in 1..count(r) |-> context(r)]
                ELSE << >>) \o types_from(r + 1)
    IN  /\ Len(data) = Len(types_from(h + 1))
        /\ \A k \in DOMAIN data : data[k].type_repas = types_from(h + 1)[k]

\* C18 witness: the sheet whose body changes the type was extracted: the
\* record above the first type row has no type, the two records of the
\* row below it are of type Enfants, and the record below the type row
\* written in lower case, a Total row in between, is of type Adultes.
C18_Witness ==
  /\ xl_pc # "ready"
  /\ sheet = TypedSheet
  /\ [k \in DOMAIN data |-> data[k].type_repas]
       = << NoneName, title(ENFANTS), title(ENFANTS), title(ADULTES) >>

\* C19: the total of records that the summary of a run reports is the
\* number of rows the run committed to the commandes table, whatever the
\* outcomes of its files were.
C19_TotalIsCommitted ==
  \A w \in Workers :
    summarized(w) => thread[w].summary.total_records = store[w].committed

\* C20: when a batch run has ended, the store it created is closed and
\* the process button is enabled again, whichever way the run ended.
C20_ClosedAndEnabledAtExit ==
  \A w \in Workers :
    thread[w].pc = "done" =>
      /\ store[w].conn # "none" => store[w].conn = "closed"
      /\ btn_process = "normal"

====
